---- MODULE Spec2Model ----
(***************************************************************************)
(* Model of the live voice session of the Naya front-end (src/types.ts):   *)
(* the App component's recording lifecycle (startRecording, stopRecording, *)
(* handleToggleRecording), the callbacks it hands to connectToLiveSession  *)
(* (onOpen, onError, onClose, onMessage = handleLiveMessage) and the       *)
(* playback schedule kept in audioPlaybackRef.                             *)
(*                                                                         *)
(* Scheduling model.  The page runs on one event loop: every action below  *)
(* is one task (a click, a promise continuation, a WebSocket event)        *)
(* together with the microtasks it triggers.  handleLiveMessage is split   *)
(* in two steps at its only await (line 308); decodeAudioData contains no  *)
(* await of its own, so the continuation is a microtask of the same task   *)
(* and no other task of the page runs in between: every other task is      *)
(* guarded by msg.pc = "idle".  Only the output device's clock, which is   *)
(* advanced by the audio thread, moves during the decode.                  *)
(*                                                                         *)
(* Every call of startRecording is an "attempt" k in Att; the objects it   *)
(* creates (microphone stream, the input/output AudioContext pair, the     *)
(* WebSocket and the promise returned by connectToLiveSession, the capture *)
(* nodes made by onOpen) carry the number of the attempt that made them.   *)
(***************************************************************************)
EXTENDS Integers, FiniteSets, Sequences, TLC

\* ---- bounds of the model ----
MaxStarts == 2      \* calls of startRecording
PlayStarts == 1     \* calls of startRecording in SpecPlay and SpecCapture
MaxSegs   == 2      \* audio segments scheduled (AudioBufferSourceNodes made)
MaxDur    == 1      \* longest segment duration, in clock units
MaxClock  == 1      \* largest value of the output clock
MaxTime   == 3      \* largest value of nextStartTime

MaxFrames == 2      \* frames captured by the microphone graph
MaxPolls  == 3      \* polls of the video job that are counted
MaxStale  == 1      \* key calls in flight whose gate has been unmounted
MaxOpen   == 2      \* openSelectKey dialogs of one gate in flight
MaxAttempts == 2    \* video generations that are counted
MaxTurns  == 2      \* chat turns
MaxChunks == 2      \* chunks the chat streams deliver
MaxFrags  == 2      \* transcription fragments the live session delivers
MaxLen    == 3      \* longest byte sequence of the base64 round trip
MaxFrame  == 2      \* longest sample sequence handed to createBlob
AudioLen  == 6      \* longest byte buffer handed to decodeAudioData
MaxCh     == 2      \* largest channel count handed to decodeAudioData
Sub       == 4      \* steps of the sample grid per 1/32768

Att  == 1..MaxStarts
Srcs == 1..MaxSegs

\* hist records what the claims observe and no action reads it back, except
\* nStarts, which numbers the attempts:
\*   stops     calls of stopRecording since the last call of startRecording (0, 1, 2+)
\*   stopOK    the last call of stopRecording raised no error and left what
\*             the refs held released, the refs cleared and the schedule reset
\*   justStopped  stopRecording was the last thing the page ran
\*   at        the start time handed to the last source.start (line 313)
\*   lastEnd   start + duration of the last segment scheduled on the output
\*             context of the record since the last interruption or stop,
\*             -1 if none (times of two contexts' clocks are not compared)
\*   chained   the last segment was scheduled after another one (lastEnd >= 0)
\*   intAt     the output clock when the last interruption was handled, until
\*             the next segment is scheduled or the output context changes; else -1
\*   afterInt  the last segment scheduled was the first one after an interruption
VARIABLES
  isRecording,        \* React state isRecording (line 239)
  errorMessage,       \* React state errorMessage (line 235): "", "mic", "conn"
  mediaStreamRef,     \* attempt whose MediaStream the ref holds, 0 = null
  sessionPromiseRef,  \* attempt whose session promise the ref holds, 0 = null
  audioContextRef,    \* record {input, output, scriptProcessor, source}
  nextStartTime,      \* audioPlaybackRef.current.nextStartTime
  sources,            \* audioPlaybackRef.current.sources
  pc,                 \* per attempt: position of startRecording
  stream,             \* per attempt: the MediaStream's tracks
  ctx,                \* per attempt: the input/output AudioContext pair
  ws,                 \* per attempt: the session's WebSocket
  promise,            \* per attempt: the promise of connectToLiveSession
  closeReq,           \* per attempt: a then(session => session.close()) waits
  nodes,              \* per attempt: capture nodes made by its onOpen
  clock,              \* currentTime of the output context the record holds
  srcSt,              \* per AudioBufferSourceNode: its playback state
  msg,                \* the handleLiveMessage call in flight
  hist                \* history of the run (observation only)

\* the capture path (lines 362-367)
VARIABLES
  captured,           \* frames the capture nodes have delivered so far
  thens,              \* per attempt: blobs whose then-callback waits on its promise
  sent                \* calls of session.sendRealtimeInput, in order

captureVars == <<captured, thens, sent>>

\* the audio helper functions (lines 141-190), applied to one input
VARIABLES
  cin,                \* the input: [op, bytes, samples, ch]
  cout                \* the result: [done, ok, bytes, samples]

codecVars == <<cin, cout>>

\* one call of generateVideo (lines 58-107) and the job it waits for
VARIABLES
  vpc,                \* position of the call: the await it is suspended at
  job,                \* the video job at the service: [done, link]
  operation,          \* the operation object the call read last: [done, link]
  messageIndex,       \* line 84, kept modulo the number of progress messages
  progress,           \* the last message handed to onProgress, "" if none
  result,             \* how the call settled, "none" while it has not
  vhist               \* history of the call (observation only)

videoVars == <<vpc, job, operation, messageIndex, progress, result, vhist>>

\* the API-key gate of the video panel (ApiKeySelector.tsx) and the App state
\* it reports to.  VideoPanel is a component defined in the body of App and
\* mounted as <VideoPanel /> (lines 458-460, 574), so every render of App
\* gives it a new identity and the gate below it is mounted afresh.
VARIABLES
  aistudio,           \* window.aistudio offers the two key functions
  mounted,            \* the page has rendered the gate
  isKeySelected,      \* state of the mounted gate, line 10
  isChecking,         \* state of the mounted gate, line 11
  check,              \* checkApiKey of the mounted gate: "none", "pending",
                      \* or how it ended: "true", "false", "threw", "absent"
  opening,            \* calls of openSelectKey of the mounted gate in flight
  staleChecks,        \* calls of hasSelectedApiKey in flight whose gate is gone
  staleOpens,         \* calls of openSelectKey in flight whose gate is gone
  appKeySelected,     \* isKeySelected of App (types.ts line 236)
  khist               \* history of the gate (observation only)

keyVars == <<aistudio, mounted, isKeySelected, isChecking, check, opening,
             staleChecks, staleOpens, appKeySelected, khist>>

\* handleGenerateVideo (lines 423-449) and the video state of App it writes;
\* errorMessage (line 235) is the state the live session writes as well
VARIABLES
  generationStatus,   \* line 232
  generatedVideoUrl,  \* line 234: "" for null, "url" for an object URL
  gpc,                \* position of the handler: the await it is suspended at
  ghist               \* history of the handler (observation only)

genVars == <<generationStatus, generatedVideoUrl, gpc, ghist>>

\* the chat panel: handleSendMessage (lines 262-298) and the message list
\* (line 222), which the transcriptions of the live session write as well
VARIABLES
  chatMessages,       \* line 222: records [role, text, by, turn]; text is a
                      \* sequence of pieces (typed text, chunks, fragments)
  isChatting,         \* line 226
  cpc,                \* position of handleSendMessage
  modelResponse,      \* line 272, the chunks of the turn in flight
  chist               \* history of the chat (observation only)

chatVars == <<chatMessages, isChatting, cpc, modelResponse, chist>>

\* the page has been closed: App is unmounted
VARIABLES unmountedApp

\* App state outside the live session
appVars == <<genVars, chatVars, unmountedApp>>

\* state of the components an action of the live session does not touch
otherVars == <<codecVars, videoVars, keyVars, appVars>>

liveVars == <<isRecording, errorMessage, mediaStreamRef, sessionPromiseRef,
              audioContextRef, nextStartTime, sources, pc, stream, ctx, ws,
              promise, closeReq, nodes, clock, srcSt, msg, hist, captureVars>>

vars == <<liveVars, otherVars>>

Max(a, b) == IF a >= b THEN a ELSE b

\* pieces of message text: the greeting, typed text, the chunks of a chat
\* stream, a transcription fragment, the error text of line 285
Chunks == {"a", "b"}
Pieces == {"hello", "typed", "frag", "sorry"} \cup Chunks

\* audioContextRef.current = null; a field that is 0 is absent (undefined)
NullCtx == [input |-> 0, output |-> 0, scriptProcessor |-> 0, source |-> 0]

IdleMsg == [pc |-> "idle", dur |-> 0, interrupted |-> FALSE, now |-> 0]

TypeOK ==
  /\ isRecording \in BOOLEAN
  /\ errorMessage \in {"", "mic", "conn", "key", "video"}
  /\ mediaStreamRef \in 0..MaxStarts
  /\ sessionPromiseRef \in 0..MaxStarts
  /\ audioContextRef \in [input : 0..MaxStarts, output : 0..MaxStarts,
                          scriptProcessor : 0..MaxStarts, source : 0..MaxStarts]
  /\ nextStartTime \in 0..MaxTime
  /\ sources \subseteq Srcs
  /\ pc \in [Att -> {"idle", "awaitMic", "running", "denied"}]
  /\ stream \in [Att -> {"none", "live", "stopped"}]
  /\ ctx \in [Att -> {"none", "running", "closed"}]
  /\ ws \in [Att -> {"none", "connecting", "open", "closed", "errored"}]
  /\ promise \in [Att -> {"none", "pending", "resolved"}]
  /\ closeReq \in [Att -> BOOLEAN]
  /\ nodes \in [Att -> {"none", "connected", "disconnected"}]
  /\ clock \in 0..MaxClock
  /\ srcSt \in [Srcs -> {"none", "playing", "ended", "stopped"}]
  /\ msg \in [pc : {"idle", "decoding", "rejected"}, dur : 0..MaxDur,
              interrupted : BOOLEAN, now : 0..MaxClock]
  /\ vpc \in {"idle", "submitting", "sleeping", "polling", "fetching",
              "blobbing", "resolved", "rejected"}
  /\ job \in [done : BOOLEAN, link : BOOLEAN]
  /\ operation \in [done : BOOLEAN, link : BOOLEAN]
  /\ messageIndex \in 0..3
  /\ progress \in {"", "warming", "composing", "rendering", "applying",
                   "almost", "complete", "fetching"}
  /\ result \in {"none", "url", "noLink", "downloadFailed", "callError"}
  /\ vhist \in [first : STRING, fetched : BOOLEAN, polls : 0..MaxPolls]
  /\ aistudio \in BOOLEAN /\ mounted \in BOOLEAN
  /\ isKeySelected \in BOOLEAN /\ isChecking \in BOOLEAN
  /\ check \in {"none", "pending", "true", "false", "threw", "absent"}
  /\ opening \in 0..MaxOpen
  /\ staleChecks \in 0..MaxStale /\ staleOpens \in 0..MaxStale
  /\ appKeySelected \in BOOLEAN
  /\ khist \in [opened : BOOLEAN, failed : BOOLEAN, dialog : BOOLEAN]
  /\ generationStatus \in {"idle", "generating", "success", "error"}
  /\ generatedVideoUrl \in {"", "url"}
  /\ gpc \in {"idle", "reading", "awaiting"}
  /\ ghist \in [reselect : BOOLEAN, attempts : 0..MaxAttempts]
  /\ chatMessages \in Seq([role : {"user", "model"}, text : Seq(Pieces),
                           by : {"init", "typed", "chat", "live"},
                           turn : 0..MaxTurns])
  /\ isChatting \in BOOLEAN
  /\ cpc \in {"idle", "sending", "streaming"}
  /\ modelResponse \in Seq(Chunks)
  /\ chist \in [turns : 0..MaxTurns, chunks : 0..MaxChunks, frags : 0..MaxFrags]
  /\ unmountedApp \in BOOLEAN
  /\ captured \in 0..MaxFrames
  /\ thens \in [Att -> Seq([by : Att, frame : 1..MaxFrames, n : 1..MaxFrame,
                            mimeType : STRING, len : Nat])]
  /\ sent \in Seq([to : Att, by : Att, frame : 1..MaxFrames, n : 1..MaxFrame,
                   mimeType : STRING, len : Nat,
                   err : {"none", "logged", "unhandled"}])

NoInput  == [op |-> "none", bytes |-> <<>>, samples |-> <<>>, ch |-> 1]
NoOutput == [done |-> FALSE, ok |-> TRUE, bytes |-> <<>>, samples |-> <<>>]

\* no helper call is under observation
CodecIdle == cin = NoInput /\ cout = NoOutput

\* vhist: first is the first message handed to onProgress, fetched tells that
\* fetch was called, polls counts the calls of getVideosOperation that
\* returned (it stops counting at MaxPolls)
VideoIdle ==
  /\ vpc = "idle"
  /\ job = [done |-> FALSE, link |-> FALSE]
  /\ operation = [done |-> FALSE, link |-> FALSE]
  /\ messageIndex = 0
  /\ progress = ""
  /\ result = "none"
  /\ vhist = [first |-> "", fetched |-> FALSE, polls |-> 0]

\* khist: opened tells that the mounted gate saw openSelectKey complete,
\* failed that the step just taken held a key check that found no capability
\* or threw, dialog that a call of openSelectKey has completed since the page
\* was loaded or, if later, since a generation last failed for a missing key
KeyHist0 == [opened |-> FALSE, failed |-> FALSE, dialog |-> FALSE]

\* ghist: reselect tells that a generation failed with 'Requested entity was
\* not found.', attempts counts the generations started
GenIdle ==
  /\ generationStatus = "idle"
  /\ generatedVideoUrl = ""
  /\ gpc = "idle"
  /\ ghist = [reselect |-> FALSE, attempts |-> 0]

\* lines 222-226: the list holds the greeting; chist counts the turns
\* started, the chunks and the transcription fragments received
ChatIdle ==
  /\ chatMessages = <<[role |-> "model", text |-> <<"hello">>, by |-> "init",
                       turn |-> 0]>>
  /\ isChatting = FALSE
  /\ cpc = "idle"
  /\ modelResponse = <<>>
  /\ chist = [turns |-> 0, chunks |-> 0, frags |-> 0]

AppIdle == GenIdle /\ ChatIdle /\ unmountedApp = FALSE

\* the gate before the page has rendered it
KeyUnmounted ==
  /\ mounted = FALSE
  /\ isKeySelected = FALSE
  /\ isChecking = TRUE
  /\ check = "none"
  /\ opening = 0
  /\ staleChecks = 0
  /\ staleOpens = 0
  /\ appKeySelected = FALSE
  /\ khist = KeyHist0

KeyIdle == aistudio = TRUE /\ KeyUnmounted

\* the page before any click: no session, nothing playing
InitLive ==
  /\ isRecording = FALSE
  /\ errorMessage = ""
  /\ mediaStreamRef = 0
  /\ sessionPromiseRef = 0
  /\ audioContextRef = NullCtx
  /\ nextStartTime = 0
  /\ sources = {}
  /\ pc = [k \in Att |-> "idle"]
  /\ stream = [k \in Att |-> "none"]
  /\ ctx = [k \in Att |-> "none"]
  /\ ws = [k \in Att |-> "none"]
  /\ promise = [k \in Att |-> "none"]
  /\ closeReq = [k \in Att |-> FALSE]
  /\ nodes = [k \in Att |-> "none"]
  /\ clock = 0
  /\ srcSt = [s \in Srcs |-> "none"]
  /\ msg = IdleMsg
  /\ hist = [nStarts |-> 0, stops |-> 0, stopOK |-> TRUE,
             justStopped |-> FALSE, at |-> -1,
             lastEnd |-> -1, chained |-> FALSE, intAt |-> -1, afterInt |-> FALSE]
  /\ captured = 0
  /\ thens = [k \in Att |-> <<>>]
  /\ sent = <<>>

Init == InitLive /\ CodecIdle /\ VideoIdle /\ KeyIdle /\ AppIdle

\* ---- what is alive ----
LiveStreams  == {k \in Att : stream[k] = "live"}
LiveContexts == {k \in Att : ctx[k] = "running"}
LiveSessions == {k \in Att : ws[k] \in {"connecting", "open"}}
LiveNodes    == {k \in Att : nodes[k] = "connected" /\ ctx[k] = "running"}
PlayingSources == {s \in Srcs : srcSt[s] = "playing"}

\* every microphone track, device context, capture node and session is
\* released; a session whose close is queued behind its pending promise counts
\* as released
AllReleased ==
  /\ LiveStreams = {}
  /\ LiveContexts = {}
  /\ LiveNodes = {}
  /\ {k \in LiveSessions : ~closeReq[k]} = {}

ScheduleReset == nextStartTime = 0 /\ sources = {}

\* ---- the audio helper functions (lines 141-190) ----

\* A binary string is the sequence of its code units, a base64 string the
\* sequence of its characters: the 64 digits are 0..63, Pad is '='.
Pad == 64

\* btoa (line 147): three bytes give four digits, a rest of one or two bytes
\* is padded
RECURSIVE btoa(_)
btoa(b) ==
  IF Len(b) = 0 THEN <<>>
  ELSE IF Len(b) = 1
       THEN <<b[1] \div 4, (b[1] % 4) * 16, Pad, Pad>>
  ELSE IF Len(b) = 2
       THEN <<b[1] \div 4, (b[1] % 4) * 16 + b[2] \div 16, (b[2] % 16) * 4, Pad>>
  ELSE <<b[1] \div 4, (b[1] % 4) * 16 + b[2] \div 16,
         (b[2] % 16) * 4 + b[3] \div 64, b[3] % 64>>
       \o btoa(SubSeq(b, 4, Len(b)))

\* encode keeping only the low seven bits of every byte
encodeAscii(bytes) == btoa([i \in 1..Len(bytes) |-> bytes[i] % 128])

\* lines 141-148: every byte becomes the character with that code unit
encode(bytes) == btoa([i \in 1..Len(bytes) |-> bytes[i]])

\* the digits of a base64 string without its padding (forgiving-base64: one or
\* two '=' are dropped when the length is a multiple of four)
Unpadded(t) ==
  IF Len(t) % 4 = 0 /\ Len(t) > 0 /\ t[Len(t)] = Pad
  THEN IF t[Len(t) - 1] = Pad THEN SubSeq(t, 1, Len(t) - 2)
                              ELSE SubSeq(t, 1, Len(t) - 1)
  ELSE t

\* atob throws on a character that is no digit and on a length of 4n + 1
AtobThrows(t) ==
  LET d == Unpadded(t) IN
  \/ \E i \in 1..Len(d) : d[i] \notin 0..63
  \/ Len(d) % 4 = 1

\* atob on digits d: four digits give three bytes, a rest of two or three
\* digits gives one or two bytes
RECURSIVE atobDigits(_)
atobDigits(d) ==
  IF Len(d) < 2 THEN <<>>
  ELSE IF Len(d) = 2
       THEN <<d[1] * 4 + d[2] \div 16>>
  ELSE IF Len(d) = 3
       THEN <<d[1] * 4 + d[2] \div 16, (d[2] % 16) * 16 + d[3] \div 4>>
  ELSE <<d[1] * 4 + d[2] \div 16, (d[2] % 16) * 16 + d[3] \div 4,
         (d[3] % 4) * 64 + d[4]>>
       \o atobDigits(SubSeq(d, 5, Len(d)))

\* lines 150-158: atob, then every code unit is stored into a Uint8Array
decode(base64) ==
  IF AtobThrows(base64)
  THEN [ok |-> FALSE, bytes |-> <<>>]
  ELSE LET binaryString == atobDigits(Unpadded(base64)) IN
       [ok |-> TRUE,
        bytes |-> [i \in 1..Len(binaryString) |-> binaryString[i] % 256]]

\* A sample is a multiple of 1/(Full * Sub): the number q stands for the
\* float q / (Full * Sub), so that 1.0 is Full * Sub and -1.0 is -Full * Sub.
Full == 32768

\* ToInt16 of a number x / Sub, as a store into an Int16Array does it: the
\* fraction is cut off towards zero and the integer wraps modulo 2^16
ToInt16(x) ==
  LET t == IF x >= 0 THEN x \div Sub ELSE -((-x) \div Sub) IN
  ((t + Full) % (2 * Full)) - Full

\* the two bytes of an Int16Array element in the buffer (little-endian)
Int16Bytes(v) ==
  LET u == v % (2 * Full) IN <<u % 256, u \div 256>>

RECURSIVE BufferOf(_)
BufferOf(int16) ==
  IF Len(int16) = 0 THEN <<>>
  ELSE Int16Bytes(int16[1]) \o BufferOf(Tail(int16))

\* createBlob storing one byte per sample instead of an Int16Array element
createBlobInt8(data) ==
  LET int8 == [i \in 1..Len(data) |-> ToInt16(data[i]) % 256] IN
  [data |-> encode(int8), mimeType |-> "audio/pcm;rate=16000"]

\* lines 180-190: data[i] * 32768 is stored into an Int16Array, whose buffer
\* is base64-encoded
createBlob(data) ==
  LET int16 == [i \in 1..Len(data) |-> ToInt16(data[i])] IN
  [data |-> encode(BufferOf(int16)), mimeType |-> "audio/pcm;rate=16000"]

\* element i (from 1) of new Int16Array(data.buffer)
Int16At(data, i) ==
  LET u == data[2 * i - 1] + 256 * data[2 * i] IN
  IF u >= Full THEN u - 2 * Full ELSE u

\* lines 160-178.  new Int16Array(data.buffer) throws on an odd byte length.
\* frameCount is a real number; createBuffer converts it to an unsigned long,
\* which cuts its fraction off, and throws on a length of 0.  The loop stores
\* element i * numChannels + channel of the Int16Array, divided by 32768, in
\* frame i of the channel; a store past the end of the channel is ignored.
\* A decoded sample is given by its numerator v, standing for v / 32768.
decodeAudioData(data, numChannels) ==
  LET n16    == Len(data) \div 2
      length == n16 \div numChannels
  IN
  IF Len(data) % 2 # 0 \/ length = 0
  THEN [ok |-> FALSE, channels |-> <<>>]
  ELSE [ok |-> TRUE,
        channels |-> [c \in 1..numChannels |->
                        [i \in 1..length |->
                           Int16At(data, (i - 1) * numChannels + c)]]]

\* the sequences over S of length up to n
SeqsUpTo(S, n) == UNION {[1..m -> S] : m \in 0..n}

\* ---- startRecording (lines 350-389) ----

\* lines 351-353: setIsRecording(true) and the call of getUserMedia; the
\* function then waits for the permission prompt
startRecording ==
  LET k == hist.nStarts + 1 IN
  /\ hist.nStarts < MaxStarts
  /\ isRecording' = TRUE
  /\ pc' = [pc EXCEPT ![k] = "awaitMic"]
  /\ hist' = [hist EXCEPT !.nStarts = k, !.stops = 0, !.stopOK = TRUE,
                          !.justStopped = FALSE]
  /\ UNCHANGED <<errorMessage, mediaStreamRef, sessionPromiseRef,
                 audioContextRef, nextStartTime, sources, stream, ctx, ws,
                 promise, closeReq, nodes, clock, srcSt, msg>>
  /\ UNCHANGED <<captureVars, otherVars>>

\* lines 353-382: getUserMedia resolved; the stream is stored, both device
\* contexts are made, connectToLiveSession is called and the record is set
MicGranted(k) ==
  /\ msg.pc = "idle"
  /\ pc[k] = "awaitMic"
  /\ pc' = [pc EXCEPT ![k] = "running"]
  /\ stream' = [stream EXCEPT ![k] = "live"]
  /\ mediaStreamRef' = k
  /\ ctx' = [ctx EXCEPT ![k] = "running"]
  /\ ws' = [ws EXCEPT ![k] = "connecting"]
  /\ promise' = [promise EXCEPT ![k] = "pending"]
  /\ sessionPromiseRef' = k
  /\ audioContextRef' = [input |-> k, output |-> k,
                         scriptProcessor |-> 0, source |-> 0]
  /\ clock' = 0
  /\ hist' = [hist EXCEPT !.intAt = -1, !.afterInt = FALSE,
                          !.lastEnd = -1, !.chained = FALSE,
                          !.justStopped = FALSE]
  /\ UNCHANGED <<isRecording, errorMessage, nextStartTime, sources, closeReq,
                 nodes, srcSt, msg>>
  /\ UNCHANGED <<captureVars, otherVars>>

\* MicDenied with the catch block's setIsRecording(false) left out
MicDeniedStaysRecording(k) ==
  /\ msg.pc = "idle"
  /\ pc[k] = "awaitMic"
  /\ pc' = [pc EXCEPT ![k] = "denied"]
  /\ errorMessage' = "mic"
  /\ hist' = [hist EXCEPT !.justStopped = FALSE]
  /\ UNCHANGED <<isRecording, mediaStreamRef, sessionPromiseRef,
                 audioContextRef, nextStartTime, sources, stream, ctx, ws,
                 promise, closeReq, nodes, clock, srcSt, msg>>
  /\ UNCHANGED <<captureVars, otherVars>>

\* lines 353, 384-388: getUserMedia rejected; the catch block runs
MicDenied(k) ==
  /\ msg.pc = "idle"
  /\ pc[k] = "awaitMic"
  /\ pc' = [pc EXCEPT ![k] = "denied"]
  /\ errorMessage' = "mic"
  /\ isRecording' = FALSE
  /\ hist' = [hist EXCEPT !.justStopped = FALSE]
  /\ UNCHANGED <<mediaStreamRef, sessionPromiseRef, audioContextRef,
                 nextStartTime, sources, stream, ctx, ws, promise, closeReq,
                 nodes, clock, srcSt, msg>>
  /\ UNCHANGED <<captureVars, otherVars>>

\* ---- stopRecording (lines 391-411) ----

\* what a call of stopRecording is to leave behind: the tracks of the stream,
\* the session, the capture nodes and the device contexts that the refs held
\* when it was called are released (the session at least queued for closing),
\* the session and device-context refs are cleared, the schedule is reset
StopReleases ==
  LET m == mediaStreamRef
      s == sessionPromiseRef
      rec == audioContextRef
  IN
  /\ m # 0 => stream'[m] # "live"
  /\ s # 0 => (ws'[s] \notin {"connecting", "open"} \/ closeReq'[s])
  /\ sessionPromiseRef' = 0
  /\ rec.scriptProcessor # 0 => nodes'[rec.scriptProcessor] # "connected"
  /\ rec.input # 0 => ctx'[rec.input] # "running"
  /\ rec.output # 0 => ctx'[rec.output] # "running"
  /\ audioContextRef' = NullCtx
  /\ ScheduleReset' /\ PlayingSources' = {}

\* ws0 is the sockets' state when the function is entered.
\* Line 403 reads .input of the record: when the record has no input the read
\* of .close throws a TypeError and lines 404-410 do not run.
stopRecording(ws0) ==
  LET s     == sessionPromiseRef
      rec   == audioContextRef
      threw == rec # NullCtx /\ rec.input = 0
  IN
  /\ isRecording' = FALSE
  /\ stream' = IF mediaStreamRef # 0 /\ stream[mediaStreamRef] = "live"
               THEN [stream EXCEPT ![mediaStreamRef] = "stopped"]
               ELSE stream
  /\ ws' = IF s # 0 /\ promise[s] = "resolved" /\ ws0[s] = "open"
           THEN [ws0 EXCEPT ![s] = "closed"]
           ELSE ws0
  /\ closeReq' = IF s # 0 /\ promise[s] = "pending"
                 THEN [closeReq EXCEPT ![s] = TRUE]
                 ELSE closeReq
  /\ sessionPromiseRef' = 0
  /\ nodes' = IF rec.scriptProcessor # 0 /\ nodes[rec.scriptProcessor] = "connected"
              THEN [nodes EXCEPT ![rec.scriptProcessor] = "disconnected"]
              ELSE nodes
  /\ IF threw
     THEN UNCHANGED <<ctx, audioContextRef, nextStartTime, sources, srcSt, clock>>
     ELSE /\ ctx' = [k \in Att |->
                       IF k \in {rec.input, rec.output} /\ ctx[k] = "running"
                       THEN "closed" ELSE ctx[k]]
          /\ audioContextRef' = NullCtx
          /\ clock' = 0
          /\ srcSt' = [x \in Srcs |-> IF x \in sources THEN "stopped" ELSE srcSt[x]]
          /\ sources' = {}
          /\ nextStartTime' = 0
  /\ hist' = [hist EXCEPT
                !.stops = IF hist.stops < 2 THEN hist.stops + 1 ELSE 2,
                !.stopOK = ~threw /\ StopReleases,
                !.justStopped = TRUE,
                !.lastEnd = -1, !.chained = FALSE,
                !.intAt = -1, !.afterInt = FALSE]
  /\ UNCHANGED <<mediaStreamRef, pc, promise, msg>>
  /\ UNCHANGED <<captureVars, otherVars>>

\* ---- handleToggleRecording (lines 414-420) ----
handleToggleRecording ==
  /\ msg.pc = "idle"
  /\ IF isRecording
     THEN stopRecording(ws) /\ UNCHANGED errorMessage
     ELSE startRecording

\* ---- callbacks handed to connectToLiveSession (lines 112-137, 359-381) ----

\* lines 360-371: the socket opened.  On a closed input context the factory
\* calls either throw (the callback aborts and the promise of the session is
\* never resolved) or succeed, depending on the browser.  Otherwise the record
\* is rebuilt by spreading the current record, the promise resolves and the
\* then-callbacks waiting on it run (a queued session.close()).
\* line 366 for the blobs in q whose then-callbacks waited on the promise of
\* attempt k: they run in the order they were registered, before a close
\* that stopRecording queued later
SentNow(k, q) ==
  [i \in 1..Len(q) |->
     [to |-> k, by |-> q[i].by, frame |-> q[i].frame, n |-> q[i].n,
      mimeType |-> q[i].mimeType, len |-> q[i].len, err |-> "none"]]

onOpen(k, throws) ==
  /\ msg.pc = "idle"
  /\ ws[k] = "connecting"
  /\ throws => ctx[k] = "closed"
  /\ IF throws
     THEN /\ ws' = [ws EXCEPT ![k] = "open"]
          /\ UNCHANGED <<nodes, audioContextRef, promise, thens, sent>>
     ELSE /\ nodes' = [nodes EXCEPT ![k] = "connected"]
          /\ audioContextRef' = [audioContextRef EXCEPT
                                   !.scriptProcessor = k, !.source = k]
          /\ promise' = [promise EXCEPT ![k] = "resolved"]
          /\ sent' = sent \o SentNow(k, thens[k])
          /\ thens' = [thens EXCEPT ![k] = <<>>]
          /\ ws' = [ws EXCEPT ![k] = IF closeReq[k] THEN "closed" ELSE "open"]
  /\ hist' = [hist EXCEPT !.justStopped = FALSE]
  /\ UNCHANGED <<isRecording, errorMessage, mediaStreamRef, sessionPromiseRef,
                 nextStartTime, sources, pc, stream, ctx, closeReq, clock,
                 srcSt, msg, captured>>
  /\ UNCHANGED otherVars

\* lines 373-377: the socket reported an error (once per socket)
onError(k) ==
  /\ msg.pc = "idle"
  /\ ws[k] \in {"connecting", "open"}
  /\ errorMessage' = "conn"
  /\ stopRecording([ws EXCEPT ![k] = "errored"])

\* lines 378-380: the peer closed the socket; the callback only logs
onClose(k) ==
  /\ msg.pc = "idle"
  /\ ws[k] = "open"
  /\ ws' = [ws EXCEPT ![k] = "closed"]
  /\ hist' = [hist EXCEPT !.justStopped = FALSE]
  /\ UNCHANGED <<isRecording, errorMessage, mediaStreamRef, sessionPromiseRef,
                 audioContextRef, nextStartTime, sources, pc, stream, ctx,
                 promise, closeReq, nodes, clock, srcSt, msg>>
  /\ UNCHANGED <<captureVars, otherVars>>

\* ---- handleLiveMessage (lines 300-322), the playback pipeline ----

NewSource == Cardinality({s \in Srcs : srcSt[s] # "none"}) + 1

\* lines 318-322 applied to the set of sources srcs
Interrupt(srcs, st) == [x \in Srcs |-> IF x \in srcs THEN "stopped" ELSE st[x]]

\* handleLiveMessage with line 307 taking the clock instead of the maximum
handleLiveMessageNoMax(k, d, interrupted) ==
  /\ msg.pc = "idle"
  /\ ws[k] = "open" /\ promise[k] = "resolved"
  /\ d # 0 \/ interrupted
  /\ IF d # 0 /\ audioContextRef.output # 0
     THEN /\ NewSource <= MaxSegs
          /\ Max(nextStartTime, clock) + d <= MaxTime
          /\ nextStartTime' = clock
          /\ msg' = [pc |-> "decoding", dur |-> d,
                     interrupted |-> interrupted, now |-> clock]
          /\ hist' = [hist EXCEPT !.justStopped = FALSE]
          /\ UNCHANGED <<sources, srcSt>>
     ELSE /\ IF interrupted
             THEN /\ srcSt' = Interrupt(sources, srcSt)
                  /\ sources' = {}
                  /\ nextStartTime' = 0
                  /\ hist' = [hist EXCEPT
                                !.justStopped = FALSE,
                                !.lastEnd = -1, !.chained = FALSE,
                                !.afterInt = FALSE,
                                !.intAt = IF audioContextRef.output # 0
                                          THEN clock ELSE -1]
             ELSE /\ hist' = [hist EXCEPT !.justStopped = FALSE]
                  /\ UNCHANGED <<srcSt, sources, nextStartTime>>
          /\ UNCHANGED msg
  /\ UNCHANGED <<isRecording, errorMessage, mediaStreamRef, sessionPromiseRef,
                 audioContextRef, pc, stream, ctx, ws, promise, closeReq,
                 nodes, clock>>
  /\ UNCHANGED <<captureVars, otherVars>>

\* handleLiveMessage with line 321 (nextStartTime = 0) left out
handleLiveMessageKeepsTime(k, d, interrupted) ==
  /\ msg.pc = "idle"
  /\ ws[k] = "open" /\ promise[k] = "resolved"
  /\ d # 0 \/ interrupted
  /\ IF d # 0 /\ audioContextRef.output # 0
     THEN /\ NewSource <= MaxSegs
          /\ Max(nextStartTime, clock) + d <= MaxTime
          /\ nextStartTime' = Max(nextStartTime, clock)
          /\ msg' = [pc |-> "decoding", dur |-> d,
                     interrupted |-> interrupted, now |-> clock]
          /\ hist' = [hist EXCEPT !.justStopped = FALSE]
          /\ UNCHANGED <<sources, srcSt>>
     ELSE /\ IF interrupted
             THEN /\ srcSt' = Interrupt(sources, srcSt)
                  /\ sources' = {}
                  /\ UNCHANGED nextStartTime
                  /\ hist' = [hist EXCEPT
                                !.justStopped = FALSE,
                                !.lastEnd = -1, !.chained = FALSE,
                                !.afterInt = FALSE,
                                !.intAt = IF audioContextRef.output # 0
                                          THEN clock ELSE -1]
             ELSE /\ hist' = [hist EXCEPT !.justStopped = FALSE]
                  /\ UNCHANGED <<srcSt, sources, nextStartTime>>
          /\ UNCHANGED msg
  /\ UNCHANGED <<isRecording, errorMessage, mediaStreamRef, sessionPromiseRef,
                 audioContextRef, pc, stream, ctx, ws, promise, closeReq,
                 nodes, clock>>
  /\ UNCHANGED <<captureVars, otherVars>>

\* A message of session k: d is the duration of its audio segment (0 = no
\* audio part), interrupted its interruption flag.  Lines 302-307 with audio
\* and an output context in the record: nextStartTime is raised to the clock
\* and the handler waits for the decode.  Otherwise the audio part is skipped
\* and lines 318-322 run at once.
handleLiveMessage(k, d, interrupted) ==
  /\ msg.pc = "idle"
  /\ ws[k] = "open" /\ promise[k] = "resolved"
  /\ d # 0 \/ interrupted
  /\ IF d # 0 /\ audioContextRef.output # 0
     THEN /\ NewSource <= MaxSegs
          /\ Max(nextStartTime, clock) + d <= MaxTime
          /\ nextStartTime' = Max(nextStartTime, clock)
          /\ msg' = [pc |-> "decoding", dur |-> d,
                     interrupted |-> interrupted, now |-> clock]
          /\ hist' = [hist EXCEPT !.justStopped = FALSE]
          /\ UNCHANGED <<sources, srcSt>>
     ELSE /\ IF interrupted
             THEN /\ srcSt' = Interrupt(sources, srcSt)
                  /\ sources' = {}
                  /\ nextStartTime' = 0
                  /\ hist' = [hist EXCEPT
                                !.justStopped = FALSE,
                                !.lastEnd = -1, !.chained = FALSE,
                                !.afterInt = FALSE,
                                !.intAt = IF audioContextRef.output # 0
                                          THEN clock ELSE -1]
             ELSE /\ hist' = [hist EXCEPT !.justStopped = FALSE]
                  /\ UNCHANGED <<srcSt, sources, nextStartTime>>
          /\ UNCHANGED msg
  /\ UNCHANGED <<isRecording, errorMessage, mediaStreamRef, sessionPromiseRef,
                 audioContextRef, pc, stream, ctx, ws, promise, closeReq,
                 nodes, clock>>
  /\ UNCHANGED <<captureVars, otherVars>>

\* lines 308-322 after the decode: the source is started at nextStartTime,
\* nextStartTime advances by the buffer's duration, the source joins the set;
\* then the interruption flag of the same message is handled
handleLiveMessageDecoded ==
  LET n  == NewSource
      at == nextStartTime
  IN
  /\ msg.pc = "decoding"
  /\ IF msg.interrupted
     THEN /\ srcSt' = Interrupt(sources \cup {n}, srcSt)
          /\ sources' = {}
          /\ nextStartTime' = 0
     ELSE /\ srcSt' = [srcSt EXCEPT ![n] = "playing"]
          /\ sources' = sources \cup {n}
          /\ nextStartTime' = at + msg.dur
  /\ msg' = IdleMsg
  /\ hist' = [hist EXCEPT
                !.at = at,
                !.chained = ~msg.interrupted /\ hist.lastEnd >= 0,
                !.afterInt = hist.intAt >= 0,
                !.lastEnd = IF msg.interrupted THEN -1 ELSE at + msg.dur,
                !.intAt = IF msg.interrupted THEN clock ELSE -1]
  /\ UNCHANGED <<isRecording, errorMessage, mediaStreamRef, sessionPromiseRef,
                 audioContextRef, pc, stream, ctx, ws, promise, closeReq,
                 nodes, clock>>
  /\ UNCHANGED <<captureVars, otherVars>>

\* line 312: a source played to its end; the 'ended' listener removes it
sourceEnded(n) ==
  /\ msg.pc = "idle"
  /\ srcSt[n] = "playing"
  /\ srcSt' = [srcSt EXCEPT ![n] = "ended"]
  /\ sources' = sources \ {n}
  /\ hist' = [hist EXCEPT !.justStopped = FALSE]
  /\ UNCHANGED <<isRecording, errorMessage, mediaStreamRef, sessionPromiseRef,
                 audioContextRef, nextStartTime, pc, stream, ctx, ws, promise,
                 closeReq, nodes, clock, msg>>
  /\ UNCHANGED <<captureVars, otherVars>>

\* outputCtx.currentTime (line 307) advances with the audio thread
Tick ==
  /\ audioContextRef.output # 0
  /\ ctx[audioContextRef.output] = "running"
  /\ clock < MaxClock
  /\ clock' = clock + 1
  /\ UNCHANGED <<isRecording, errorMessage, mediaStreamRef, sessionPromiseRef,
                 audioContextRef, nextStartTime, sources, pc, stream, ctx, ws,
                 promise, closeReq, nodes, srcSt, msg, hist>>
  /\ UNCHANGED <<captureVars, otherVars>>

\* ---- the capture path (lines 362-367) ----

\* frames the capture graph delivers: n samples of silence or of a loud value
CaptureFrames ==
  {[i \in 1..n |-> x] : n \in 1..MaxFrame, x \in {0, Full * Sub - 1}}

\* lines 363-367: the capture nodes of attempt j deliver the frame inputData.
\* The blob is made; if the session ref holds a promise, a then-callback is
\* registered on it: on a resolved promise it runs in the same task and calls
\* sendRealtimeInput, which succeeds (ok) or throws; nothing handles the
\* promise that then() returns, so the error ends as an unhandled rejection
\* (err = "unhandled"; a handler that logs it would give "logged").
onaudioprocess(j, inputData, ok) ==
  LET s       == sessionPromiseRef
      pcmBlob == createBlob(inputData)
      item    == [by |-> j, frame |-> captured + 1, n |-> Len(inputData),
                  mimeType |-> pcmBlob.mimeType,
                  len |-> Len(decode(pcmBlob.data).bytes)]
  IN
  /\ msg.pc = "idle"
  /\ nodes[j] = "connected" /\ ctx[j] = "running"
  /\ captured < MaxFrames
  /\ captured' = captured + 1
  /\ IF s = 0
     THEN ok /\ UNCHANGED <<thens, sent>>
     ELSE IF promise[s] = "pending"
     THEN /\ ok
          /\ thens' = [thens EXCEPT ![s] = Append(@, item)]
          /\ UNCHANGED sent
     ELSE /\ sent' = Append(sent, [to |-> s, by |-> j, frame |-> item.frame,
                                   n |-> item.n,
                                   mimeType |-> item.mimeType, len |-> item.len,
                                   err |-> IF ok THEN "none" ELSE "unhandled"])
          /\ UNCHANGED thens
  /\ hist' = [hist EXCEPT !.justStopped = FALSE]
  /\ UNCHANGED <<isRecording, errorMessage, mediaStreamRef, sessionPromiseRef,
                 audioContextRef, nextStartTime, sources, pc, stream, ctx, ws,
                 promise, closeReq, nodes, clock, srcSt, msg>>
  /\ UNCHANGED otherVars

\* ---- handleLiveMessage on audio data that cannot be decoded ----

\* base64 texts of a message's audio part that is not empty
AudioTexts == SeqsUpTo({0}, 3) \ {<<>>}

\* lines 302-308 on such a text when the record holds an output context:
\* line 307 has run when decode (atob) or decodeAudioData (the Int16Array
\* constructor, createBuffer) throws inside the async function; the promise
\* of the call is rejected and lines 309-347 do not run (the interruption flag
\* of the message is not handled).
handleLiveMessageBad(k, audioData, interrupted) ==
  LET bytes == decode(audioData) IN
  /\ msg.pc = "idle"
  /\ ws[k] = "open" /\ promise[k] = "resolved"
  /\ audioContextRef.output # 0
  /\ ~bytes.ok \/ ~decodeAudioData(bytes.bytes, 1).ok
  /\ nextStartTime' = Max(nextStartTime, clock)
  /\ msg' = [IdleMsg EXCEPT !.pc = "rejected"]
  /\ hist' = [hist EXCEPT !.justStopped = FALSE]
  /\ UNCHANGED <<isRecording, errorMessage, mediaStreamRef, sessionPromiseRef,
                 audioContextRef, sources, pc, stream, ctx, ws, promise,
                 closeReq, nodes, clock, srcSt>>
  /\ UNCHANGED <<captureVars, otherVars>>

\* the rejected promise of handleLiveMessage has no handler (the caller of
\* onmessage drops it): the task ends with an unhandled rejection
unhandledRejection ==
  /\ msg.pc = "rejected"
  /\ msg' = IdleMsg
  /\ UNCHANGED <<isRecording, errorMessage, mediaStreamRef, sessionPromiseRef,
                 audioContextRef, nextStartTime, sources, pc, stream, ctx, ws,
                 promise, closeReq, nodes, clock, srcSt, hist>>
  /\ UNCHANGED <<captureVars, otherVars>>

Next ==
  \/ handleToggleRecording
  \/ \E k \in Att : MicGranted(k)
  \/ \E k \in Att : MicDenied(k)
  \/ \E k \in Att, throws \in BOOLEAN : onOpen(k, throws)
  \/ \E k \in Att : onError(k)
  \/ \E k \in Att : onClose(k)
  \/ \E k \in Att, d \in 0..MaxDur, i \in BOOLEAN : handleLiveMessage(k, d, i)
  \/ handleLiveMessageDecoded
  \/ \E n \in Srcs : sourceEnded(n)
  \/ Tick
  \/ \E k \in Att, t \in AudioTexts, i \in BOOLEAN : handleLiveMessageBad(k, t, i)
  \/ unhandledRejection

Spec == Init /\ [][Next]_vars

\* the session lifecycle alone: the peer sends no message
NextLife ==
  \/ handleToggleRecording
  \/ \E k \in Att : MicGranted(k)
  \/ \E k \in Att : MicDenied(k)
  \/ \E k \in Att, throws \in BOOLEAN : onOpen(k, throws)
  \/ \E k \in Att : onError(k)
  \/ \E k \in Att : onClose(k)

SpecLife == Init /\ [][NextLife]_vars

\* playback claims: the lifecycle with at most PlayStarts calls of startRecording
NextPlay ==
  \/ handleToggleRecording /\ hist'.nStarts <= PlayStarts
  \/ \E k \in Att : MicGranted(k)
  \/ \E k \in Att : MicDenied(k)
  \/ \E k \in Att, throws \in BOOLEAN : onOpen(k, throws)
  \/ \E k \in Att : onError(k)
  \/ \E k \in Att : onClose(k)
  \/ \E k \in Att, d \in 0..MaxDur, i \in BOOLEAN : handleLiveMessage(k, d, i)
  \/ handleLiveMessageDecoded
  \/ \E n \in Srcs : sourceEnded(n)
  \/ Tick
  \/ \E k \in Att, t \in AudioTexts, i \in BOOLEAN : handleLiveMessageBad(k, t, i)
  \/ unhandledRejection

SpecPlay == Init /\ [][NextPlay]_vars

\* the capture path: the session lifecycle and the frames of the capture graph
NextCapture ==
  \/ handleToggleRecording /\ hist'.nStarts <= PlayStarts
  \/ \E k \in Att : MicGranted(k)
  \/ \E k \in Att : MicDenied(k)
  \/ \E k \in Att, throws \in BOOLEAN : onOpen(k, throws)
  \/ \E k \in Att : onError(k)
  \/ \E k \in Att : onClose(k)
  \/ \E j \in Att, f \in CaptureFrames, ok \in BOOLEAN : onaudioprocess(j, f, ok)

SpecCapture == Init /\ [][NextCapture]_vars

\* the capture path when the record button is clicked again while an earlier
\* start still waits for the microphone or for its socket
NextRace ==
  \/ handleToggleRecording
  \/ \E k \in Att : MicGranted(k)
  \/ \E k \in Att : MicDenied(k)
  \/ \E k \in Att, throws \in BOOLEAN : onOpen(k, throws)
  \/ \E k \in Att : onError(k)
  \/ \E k \in Att : onClose(k)
  \/ \E j \in Att, f \in CaptureFrames, ok \in BOOLEAN : onaudioprocess(j, f, ok)

SpecRace == Init /\ [][NextRace]_vars

\* ---- the helper functions applied to one input ----

\* byte values of the base64 round trip: every pattern of the two-bit and
\* four-bit groups that btoa moves across digit boundaries occurs
ByteSet == {0, 1, 2, 3, 15, 16, 63, 64, 85, 127, 128, 170, 192, 252, 254, 255}

\* samples in [-1, 1]: both end points, their neighbours, values around 0
SampleSet == {-Full * Sub, -Full * Sub + 1, -Sub - 1, -1, 0, 1, Sub + 1,
              Full * Sub - 1, Full * Sub}

\* byte values of the buffers handed to decodeAudioData
AudioBytes == {0, 1, 255}

CodecInputs(maxLen, maxFrame, audioLen, maxCh) ==
  {[op |-> "bytes", bytes |-> b, samples |-> <<>>, ch |-> 1] :
     b \in SeqsUpTo(ByteSet, maxLen)}
  \cup {[op |-> "pcm", bytes |-> <<>>, samples |-> x, ch |-> 1] :
     x \in SeqsUpTo(SampleSet, maxFrame)}
  \cup {[op |-> "audio", bytes |-> b, samples |-> <<>>, ch |-> c] :
     b \in SeqsUpTo(AudioBytes, audioLen), c \in 1..maxCh}

InitCodec ==
  /\ InitLive /\ VideoIdle /\ KeyIdle /\ AppIdle
  /\ cin \in CodecInputs(MaxLen, MaxFrame, AudioLen, MaxCh)
  /\ cout = NoOutput

\* decode(encode(bytes))
RoundTripBytes ==
  LET r == decode(encode(cin.bytes)) IN
  /\ cin.op = "bytes" /\ ~cout.done
  /\ cout' = [done |-> TRUE, ok |-> r.ok, bytes |-> r.bytes, samples |-> <<>>]
  /\ UNCHANGED <<cin, liveVars, videoVars, keyVars, appVars>>

\* decodeAudioData(decode(createBlob(samples).data), ctx, rate, 1)
RoundTripPcm ==
  LET blob  == createBlob(cin.samples)
      bytes == decode(blob.data)
      audio == decodeAudioData(bytes.bytes, 1)
  IN
  /\ cin.op = "pcm" /\ ~cout.done
  /\ cout' = [done |-> TRUE, ok |-> bytes.ok /\ audio.ok, bytes |-> bytes.bytes,
              samples |-> audio.channels]
  /\ UNCHANGED <<cin, liveVars, videoVars, keyVars, appVars>>

\* decodeAudioData(bytes, ctx, rate, ch)
DecodeAudio ==
  LET audio == decodeAudioData(cin.bytes, cin.ch) IN
  /\ cin.op = "audio" /\ ~cout.done
  /\ cout' = [done |-> TRUE, ok |-> audio.ok, bytes |-> <<>>,
              samples |-> audio.channels]
  /\ UNCHANGED <<cin, liveVars, videoVars, keyVars, appVars>>

NextCodec == RoundTripBytes \/ RoundTripPcm \/ DecodeAudio

SpecCodec == InitCodec /\ [][NextCodec]_vars

\* ---- generateVideo (lines 58-107) ----

\* lines 78-83
progressMessages == <<"composing", "rendering", "applying", "almost">>

\* onProgress(m): the message is shown; vhist keeps the first one
Report(m) ==
  /\ progress' = m
  /\ vhist' = [vhist EXCEPT !.first = IF vhist.first = "" THEN m ELSE @]

\* the same while getVideosOperation returned (one more poll was made)
ReportPolled(m) ==
  /\ progress' = m
  /\ vhist' = [vhist EXCEPT !.first = IF vhist.first = "" THEN m ELSE @,
                            !.polls = IF @ < MaxPolls THEN @ + 1 ELSE @]

\* lines 86-100 with the link test of line 96 left out: fetch is called also
\* without a download link
ContinueNoLinkTest(op, polled) ==
  /\ operation' = op
  /\ IF ~op.done
     THEN /\ IF polled THEN ReportPolled(progressMessages[messageIndex + 1])
                       ELSE Report(progressMessages[messageIndex + 1])
          /\ messageIndex' = (messageIndex + 1) % Len(progressMessages)
          /\ vpc' = "sleeping"
          /\ UNCHANGED result
     ELSE /\ vpc' = "fetching"
          /\ progress' = "fetching"
          /\ vhist' = [vhist EXCEPT !.fetched = TRUE,
                                    !.polls = IF polled /\ @ < MaxPolls THEN @ + 1 ELSE @]
          /\ UNCHANGED <<messageIndex, result>>

\* lines 86-100, entered with the operation op that generateVideos (line 67)
\* or getVideosOperation (line 90) returned.  Not done: one progress message,
\* then the 10-second timer.  Done: the completion message; without a link the
\* call rejects with the 'no link' error, with one 'Fetching' is reported and
\* fetch is called.
Continue(op, polled) ==
  /\ operation' = op
  /\ IF ~op.done
     THEN /\ IF polled THEN ReportPolled(progressMessages[messageIndex + 1])
                       ELSE Report(progressMessages[messageIndex + 1])
          /\ messageIndex' = (messageIndex + 1) % Len(progressMessages)
          /\ vpc' = "sleeping"
          /\ UNCHANGED result
     ELSE IF ~op.link
     THEN /\ vpc' = "rejected"
          /\ result' = "noLink"
          /\ progress' = "complete"
          /\ vhist' = [vhist EXCEPT !.polls = IF polled /\ @ < MaxPolls THEN @ + 1 ELSE @]
          /\ UNCHANGED messageIndex
     ELSE /\ vpc' = "fetching"
          /\ progress' = "fetching"
          /\ vhist' = [vhist EXCEPT !.fetched = TRUE,
                                    !.polls = IF polled /\ @ < MaxPolls THEN @ + 1 ELSE @]
          /\ UNCHANGED <<messageIndex, result>>

\* lines 64-67: the call reports 'Warming up' and submits the job
generateVideoCall ==
  /\ vpc = "idle"
  /\ Report("warming")
  /\ vpc' = "submitting"
  /\ UNCHANGED <<job, operation, messageIndex, result>>

\* one call of generateVideo by itself
generateVideo ==
  /\ generateVideoCall
  /\ UNCHANGED <<liveVars, codecVars, keyVars, appVars>>

\* the service finishes the job, with or without a video
JobCompletes(link) ==
  /\ vpc \notin {"idle", "resolved", "rejected"}
  /\ ~job.done
  /\ job' = [done |-> TRUE, link |-> link]
  /\ UNCHANGED <<vpc, operation, messageIndex, progress, result, vhist>>
  /\ UNCHANGED <<liveVars, codecVars, keyVars, appVars>>

\* line 67: generateVideos resolved with the job's state
SubmitResolves ==
  /\ vpc = "submitting"
  /\ Continue(job, FALSE)
  /\ UNCHANGED job
  /\ UNCHANGED <<liveVars, codecVars, keyVars, appVars>>

\* lines 67, 90, 101, 105: the awaited call rejected; generateVideo has no
\* try/catch, its promise rejects with that error
CallRejects ==
  /\ vpc \in {"submitting", "polling", "fetching", "blobbing"}
  /\ vpc' = "rejected"
  /\ result' = "callError"
  /\ UNCHANGED <<job, operation, messageIndex, progress, vhist>>
  /\ UNCHANGED <<liveVars, codecVars, keyVars, appVars>>

\* line 89: the 10-second timer fired; getVideosOperation is called
TimerFires ==
  /\ vpc = "sleeping"
  /\ vpc' = "polling"
  /\ UNCHANGED <<job, operation, messageIndex, progress, result, vhist>>
  /\ UNCHANGED <<liveVars, codecVars, keyVars, appVars>>

\* line 90: getVideosOperation resolved with the job's state
PollResolves ==
  /\ vpc = "polling"
  /\ Continue(job, TRUE)
  /\ UNCHANGED job
  /\ UNCHANGED <<liveVars, codecVars, keyVars, appVars>>

\* lines 101-105: fetch resolved; a response that is not ok rejects the call
FetchResolves(ok) ==
  /\ vpc = "fetching"
  /\ IF ok THEN vpc' = "blobbing" /\ UNCHANGED result
           ELSE vpc' = "rejected" /\ result' = "downloadFailed"
  /\ UNCHANGED <<job, operation, messageIndex, progress, vhist>>
  /\ UNCHANGED <<liveVars, codecVars, keyVars, appVars>>

\* lines 105-106: the body arrived; the call resolves with an object URL
BlobResolves ==
  /\ vpc = "blobbing"
  /\ vpc' = "resolved"
  /\ result' = "url"
  /\ UNCHANGED <<job, operation, messageIndex, progress, vhist>>
  /\ UNCHANGED <<liveVars, codecVars, keyVars, appVars>>

NextVideo ==
  \/ generateVideo
  \/ \E link \in BOOLEAN : JobCompletes(link)
  \/ SubmitResolves
  \/ CallRejects
  \/ TimerFires
  \/ PollResolves
  \/ \E ok \in BOOLEAN : FetchResolves(ok)
  \/ BlobResolves

\* every call the function awaits settles and the timer fires
VideoProgress ==
  SubmitResolves \/ TimerFires \/ PollResolves
    \/ (\E ok \in BOOLEAN : FetchResolves(ok)) \/ BlobResolves

SpecVideo == Init /\ [][NextVideo]_vars /\ WF_vars(VideoProgress)


\* ---- the API-key gate (ApiKeySelector.tsx) ----

Min(a, b) == IF a <= b THEN a ELSE b

\* what the gate renders, lines 50-83
View ==
  IF ~mounted THEN "none"
  ELSE IF isChecking THEN "verifying"
  ELSE IF ~isKeySelected THEN "select"
  ELSE "children"

\* checkApiKey up to its first await (lines 13-16): without the capability it
\* runs to its end at once, as it does when hasSelectedApiKey throws
\* synchronously
Fresh(throws) ==
  IF ~aistudio THEN "absent" ELSE IF throws THEN "threw" ELSE "pending"

PendingCheck == IF check = "pending" THEN 1 ELSE 0

\* App renders with v as its isKeySelected: the gate is mounted afresh (lines
\* 10-11) and its effect runs checkApiKey (lines 32-34).  A check that ends at
\* once reports false (lines 21, 26); if that changes the App state, App
\* renders once more and the gate is mounted a second time.  c and o are the
\* calls left in flight by gates that are gone.
RemountD(v, throws1, throws2, failed, c, o, dialog) ==
  LET o1 == Fresh(throws1)
      o2 == IF o1 # "pending" /\ v THEN Fresh(throws2) ELSE o1
  IN
  /\ mounted' = TRUE
  /\ isKeySelected' = FALSE
  /\ isChecking' = (o2 = "pending")
  /\ check' = o2
  /\ opening' = 0
  /\ staleChecks' = Min(c, MaxStale)
  /\ staleOpens' = Min(o, MaxStale)
  /\ appKeySelected' = IF o1 = "pending" THEN v ELSE FALSE
  /\ khist' = [opened |-> FALSE, failed |-> failed \/ o1 # "pending",
               dialog |-> dialog]

Remount(v, throws1, throws2, failed, c, o) ==
  RemountD(v, throws1, throws2, failed, c, o, khist.dialog)

\* onKeySelectionChange(v), the state setter of App: an unchanged value leaves
\* the page as it is and the gate applies its own update, a changed one
\* renders App
Notify(v, throws1, throws2, failed, c, o, own) ==
  IF v = appKeySelected
    THEN own /\ UNCHANGED <<mounted, appKeySelected>>
    ELSE Remount(v, throws1, throws2, failed, c, o)

\* onKeySelectionChange(true) after openSelectKey completed
NotifyOpened(throws1, throws2, c, o, own) ==
  IF appKeySelected
    THEN own /\ UNCHANGED <<mounted, appKeySelected>>
    ELSE RemountD(TRUE, throws1, throws2, FALSE, c, o, TRUE)

\* App renders: the first render of the page, or a later one after any of its
\* states changed
Render(throws1, throws2) ==
  /\ Remount(appKeySelected, throws1, throws2, FALSE,
             staleChecks + PendingCheck, staleOpens + opening)
  /\ UNCHANGED <<aistudio, liveVars, codecVars, videoVars, appVars>>

\* lines 16-18 and 28: the check of the mounted gate returns hasKey
hasSelectedApiKeyResolves(hasKey, throws1, throws2) ==
  /\ mounted /\ check = "pending"
  /\ Notify(hasKey, throws1, throws2, FALSE, staleChecks, staleOpens + opening,
            /\ isKeySelected' = hasKey
            /\ isChecking' = FALSE
            /\ check' = IF hasKey THEN "true" ELSE "false"
            /\ khist' = [khist EXCEPT !.failed = FALSE]
            /\ UNCHANGED <<opening, staleChecks, staleOpens>>)
  /\ UNCHANGED <<aistudio, liveVars, codecVars, videoVars, appVars>>

\* the catch of lines 23-26 without the finally of line 28
hasSelectedApiKeyRejectsNoFinally(throws1, throws2) ==
  /\ mounted /\ check = "pending"
  /\ Notify(FALSE, throws1, throws2, TRUE, staleChecks, staleOpens + opening,
            /\ isKeySelected' = FALSE
            /\ isChecking' = TRUE
            /\ check' = "threw"
            /\ khist' = [khist EXCEPT !.failed = TRUE]
            /\ UNCHANGED <<opening, staleChecks, staleOpens>>)
  /\ UNCHANGED <<aistudio, liveVars, codecVars, videoVars, appVars>>
\* lines 23-28: the check of the mounted gate rejects
hasSelectedApiKeyRejects(throws1, throws2) ==
  /\ mounted /\ check = "pending"
  /\ Notify(FALSE, throws1, throws2, TRUE, staleChecks, staleOpens + opening,
            /\ isKeySelected' = FALSE
            /\ isChecking' = FALSE
            /\ check' = "threw"
            /\ khist' = [khist EXCEPT !.failed = TRUE]
            /\ UNCHANGED <<opening, staleChecks, staleOpens>>)
  /\ UNCHANGED <<aistudio, liveVars, codecVars, videoVars, appVars>>

\* the check of a gate that is gone returns: its own setters do nothing, the
\* setter of App is called all the same
staleCheckResolves(hasKey, throws1, throws2) ==
  /\ staleChecks > 0
  /\ Notify(hasKey, throws1, throws2, FALSE,
            staleChecks - 1 + PendingCheck, staleOpens + opening,
            /\ staleChecks' = staleChecks - 1
            /\ khist' = [khist EXCEPT !.failed = FALSE]
            /\ UNCHANGED <<isKeySelected, isChecking, check, opening, staleOpens>>)
  /\ UNCHANGED <<aistudio, liveVars, codecVars, videoVars, appVars>>

staleCheckRejects(throws1, throws2) ==
  /\ staleChecks > 0
  /\ Notify(FALSE, throws1, throws2, TRUE,
            staleChecks - 1 + PendingCheck, staleOpens + opening,
            /\ staleChecks' = staleChecks - 1
            /\ khist' = [khist EXCEPT !.failed = TRUE]
            /\ UNCHANGED <<isKeySelected, isChecking, check, opening, staleOpens>>)
  /\ UNCHANGED <<aistudio, liveVars, codecVars, videoVars, appVars>>

\* lines 38-41: a click on "Select API Key" opens the dialog of the host
handleSelectKey ==
  /\ View = "select" /\ aistudio /\ opening < MaxOpen
  /\ opening' = opening + 1
  /\ khist' = [khist EXCEPT !.failed = FALSE]
  /\ UNCHANGED <<aistudio, mounted, isKeySelected, isChecking, check,
                 staleChecks, staleOpens, appKeySelected>>
  /\ UNCHANGED <<liveVars, codecVars, videoVars, appVars>>

\* lines 41-43: the dialog of the mounted gate completes
openSelectKeyResolves(throws1, throws2) ==
  /\ mounted /\ opening > 0
  /\ NotifyOpened(throws1, throws2,
            staleChecks + PendingCheck, staleOpens + opening - 1,
            /\ isKeySelected' = TRUE
            /\ opening' = opening - 1
            /\ khist' = [opened |-> TRUE, failed |-> FALSE, dialog |-> TRUE]
            /\ UNCHANGED <<isChecking, check, staleChecks, staleOpens>>)
  /\ UNCHANGED <<aistudio, liveVars, codecVars, videoVars, appVars>>

\* lines 45-47: the dialog of the mounted gate fails, which is only logged
openSelectKeyRejects ==
  /\ mounted /\ opening > 0
  /\ opening' = opening - 1
  /\ khist' = [khist EXCEPT !.failed = FALSE]
  /\ UNCHANGED <<aistudio, mounted, isKeySelected, isChecking, check,
                 staleChecks, staleOpens, appKeySelected>>
  /\ UNCHANGED <<liveVars, codecVars, videoVars, appVars>>

\* the dialog of a gate that is gone completes
staleOpenResolves(throws1, throws2) ==
  /\ staleOpens > 0
  /\ NotifyOpened(throws1, throws2,
            staleChecks + PendingCheck, staleOpens - 1 + opening,
            /\ staleOpens' = staleOpens - 1
            /\ khist' = [khist EXCEPT !.failed = FALSE, !.dialog = TRUE]
            /\ UNCHANGED <<isKeySelected, isChecking, check, opening, staleChecks>>)
  /\ UNCHANGED <<aistudio, liveVars, codecVars, videoVars, appVars>>

staleOpenRejects ==
  /\ staleOpens > 0
  /\ staleOpens' = staleOpens - 1
  /\ khist' = [khist EXCEPT !.failed = FALSE]
  /\ UNCHANGED <<aistudio, mounted, isKeySelected, isChecking, check, opening,
                 staleChecks, appKeySelected>>
  /\ UNCHANGED <<liveVars, codecVars, videoVars, appVars>>

NextKey ==
  \/ \E t1, t2 \in BOOLEAN : Render(t1, t2)
  \/ \E hasKey, t1, t2 \in BOOLEAN : hasSelectedApiKeyResolves(hasKey, t1, t2)
  \/ \E t1, t2 \in BOOLEAN : hasSelectedApiKeyRejects(t1, t2)
  \/ \E hasKey, t1, t2 \in BOOLEAN : staleCheckResolves(hasKey, t1, t2)
  \/ \E t1, t2 \in BOOLEAN : staleCheckRejects(t1, t2)
  \/ handleSelectKey
  \/ \E t1, t2 \in BOOLEAN : openSelectKeyResolves(t1, t2)
  \/ openSelectKeyRejects
  \/ \E t1, t2 \in BOOLEAN : staleOpenResolves(t1, t2)
  \/ staleOpenRejects

\* the host may or may not offer the key functions
InitKey ==
  /\ InitLive /\ CodecIdle /\ VideoIdle /\ AppIdle
  /\ aistudio \in BOOLEAN /\ KeyUnmounted

SpecKey == InitKey /\ [][NextKey]_vars

\* ---- handleGenerateVideo (lines 423-449) ----

\* the live session's state but for errorMessage
liveButError == <<isRecording, mediaStreamRef, sessionPromiseRef,
                  audioContextRef, nextStartTime, sources, pc, stream, ctx, ws,
                  promise, closeReq, nodes, clock, srcSt, msg, hist, captureVars>>

\* the panel shows the prompt and the "Generate Video" button (lines 478-514)
FormShown ==
  /\ View = "children"
  /\ generationStatus # "generating"
  /\ generatedVideoUrl = ""

\* the handler changed a state of App: App renders, the gate is mounted afresh
AppRenders(v, throws1, throws2, dialog) ==
  RemountD(v, throws1, throws2, FALSE,
           staleChecks + PendingCheck, staleOpens + opening, dialog)

\* no call of generateVideo exists
VideoIdleNext ==
  /\ vpc' = "idle"
  /\ job' = [done |-> FALSE, link |-> FALSE]
  /\ operation' = [done |-> FALSE, link |-> FALSE]
  /\ messageIndex' = 0
  /\ progress' = ""
  /\ result' = "none"
  /\ vhist' = [first |-> "", fetched |-> FALSE, polls |-> 0]

\* lines 423-436: a click on "Generate Video" with a prompt that is not
\* blank.  The status is set, the URL and the error message are cleared; with
\* an uploaded image the handler first waits for fileToBase64, otherwise it
\* calls generateVideo at once.
handleGenerateVideo(image, throws1, throws2) ==
  /\ FormShown
  /\ generationStatus # "generating"
  /\ ghist.attempts < MaxAttempts
  /\ generationStatus' = "generating"
  /\ generatedVideoUrl' = ""
  /\ errorMessage' = ""
  /\ ghist' = [ghist EXCEPT !.attempts = @ + 1]
  /\ IF image
     THEN gpc' = "reading" /\ UNCHANGED videoVars
     ELSE gpc' = "awaiting" /\ generateVideoCall
  /\ AppRenders(appKeySelected, throws1, throws2, khist.dialog)
  /\ UNCHANGED <<aistudio, liveButError, codecVars, chatVars, unmountedApp>>

\* lines 432-436 and 439-447: the file was read and generateVideo is called,
\* or the reader failed with an event that has no message
fileToBase64Settles(ok, throws1, throws2) ==
  /\ gpc = "reading"
  /\ IF ok
     THEN /\ gpc' = "awaiting"
          /\ generateVideoCall
          /\ UNCHANGED <<generationStatus, generatedVideoUrl, errorMessage, ghist>>
     ELSE /\ gpc' = "idle"
          /\ errorMessage' = "video"
          /\ generationStatus' = "error"
          /\ UNCHANGED <<generatedVideoUrl, ghist, videoVars>>
  /\ AppRenders(appKeySelected, throws1, throws2, khist.dialog)
  /\ UNCHANGED <<aistudio, liveButError, codecVars, chatVars, unmountedApp>>

\* lines 436-447 with line 447 left out: an error leaves the status as it is
generateVideoSettlesKeepsStatus(notFound, throws1, throws2) ==
  /\ gpc = "awaiting"
  /\ vpc \in {"resolved", "rejected"}
  /\ gpc' = "idle"
  /\ VideoIdleNext
  /\ IF vpc = "resolved"
     THEN /\ generatedVideoUrl' = "url"
          /\ generationStatus' = "success"
          /\ UNCHANGED <<errorMessage, ghist>>
          /\ AppRenders(appKeySelected, throws1, throws2, khist.dialog)
     ELSE IF result = "callError" /\ notFound
     THEN /\ errorMessage' = "key"
          /\ ghist' = [ghist EXCEPT !.reselect = TRUE]
          /\ UNCHANGED <<generatedVideoUrl, generationStatus>>
          /\ AppRenders(FALSE, throws1, throws2, FALSE)
     ELSE /\ errorMessage' = "video"
          /\ UNCHANGED <<generatedVideoUrl, generationStatus, ghist>>
          /\ AppRenders(appKeySelected, throws1, throws2, khist.dialog)
  /\ UNCHANGED <<aistudio, liveButError, codecVars, chatVars, unmountedApp>>
\* lines 436-447: the call of generateVideo settled.  Resolved: the URL is
\* stored and the status is 'success'.  Rejected: the message is stored (a
\* fixed text when the error names a missing entity, which also clears
\* isKeySelected of App) and the status is 'error'.  notFound tells whether
\* the error of the service says 'Requested entity was not found.'
generateVideoSettles(notFound, throws1, throws2) ==
  /\ gpc = "awaiting"
  /\ vpc \in {"resolved", "rejected"}
  /\ gpc' = "idle"
  /\ VideoIdleNext
  /\ IF vpc = "resolved"
     THEN /\ generatedVideoUrl' = "url"
          /\ generationStatus' = "success"
          /\ UNCHANGED <<errorMessage, ghist>>
          /\ AppRenders(appKeySelected, throws1, throws2, khist.dialog)
     ELSE IF result = "callError" /\ notFound
     THEN /\ errorMessage' = "key"
          /\ generationStatus' = "error"
          /\ ghist' = [ghist EXCEPT !.reselect = TRUE]
          /\ UNCHANGED generatedVideoUrl
          /\ AppRenders(FALSE, throws1, throws2, FALSE)
     ELSE /\ errorMessage' = "video"
          /\ generationStatus' = "error"
          /\ UNCHANGED <<generatedVideoUrl, ghist>>
          /\ AppRenders(appKeySelected, throws1, throws2, khist.dialog)
  /\ UNCHANGED <<aistudio, liveButError, codecVars, chatVars, unmountedApp>>

\* line 475: a click on "Create Another Video"
createAnotherVideo(throws1, throws2) ==
  /\ View = "children"
  /\ generationStatus # "generating"
  /\ generatedVideoUrl # ""
  /\ generatedVideoUrl' = ""
  /\ AppRenders(appKeySelected, throws1, throws2, khist.dialog)
  /\ UNCHANGED <<generationStatus, gpc, ghist, videoVars>>
  /\ UNCHANGED <<aistudio, liveVars, codecVars, chatVars, unmountedApp>>

\* the video panel: the key gate, the handler and the call it waits for.  A
\* check of the host that fails does so by rejecting (a synchronous throw of
\* hasSelectedApiKey leads to the same states and is left to SpecKey).
NextGen ==
  \/ \E t1, t2 \in {FALSE} : Render(t1, t2)
  \/ \E hasKey \in BOOLEAN, t1, t2 \in {FALSE} : hasSelectedApiKeyResolves(hasKey, t1, t2)
  \/ \E t1, t2 \in {FALSE} : hasSelectedApiKeyRejects(t1, t2)
  \/ \E hasKey \in BOOLEAN, t1, t2 \in {FALSE} : staleCheckResolves(hasKey, t1, t2)
  \/ \E t1, t2 \in {FALSE} : staleCheckRejects(t1, t2)
  \/ handleSelectKey
  \/ \E t1, t2 \in {FALSE} : openSelectKeyResolves(t1, t2)
  \/ openSelectKeyRejects
  \/ \E t1, t2 \in {FALSE} : staleOpenResolves(t1, t2)
  \/ staleOpenRejects
  \/ \E image \in BOOLEAN, t1, t2 \in {FALSE} : handleGenerateVideo(image, t1, t2)
  \/ \E ok \in BOOLEAN, t1, t2 \in {FALSE} : fileToBase64Settles(ok, t1, t2)
  \/ \E notFound \in BOOLEAN, t1, t2 \in {FALSE} : generateVideoSettles(notFound, t1, t2)
  \/ \E t1, t2 \in {FALSE} : createAnotherVideo(t1, t2)
  \/ \E link \in BOOLEAN : JobCompletes(link)
  \/ SubmitResolves
  \/ CallRejects
  \/ TimerFires
  \/ PollResolves
  \/ \E ok \in BOOLEAN : FetchResolves(ok)
  \/ BlobResolves

\* the continuation of the handler runs once the call it awaits has settled
GenProgress == \E notFound \in BOOLEAN, t1, t2 \in {FALSE} : generateVideoSettles(notFound, t1, t2)

SpecGen == InitKey /\ [][NextGen]_vars /\ WF_vars(GenProgress)

\* ---- the chat panel (lines 262-298, 324-347) ----

Last(q) == q[Len(q)]

\* the list with the text of its last message replaced (lines 279, 288)
SetLastText(q, t) == [q EXCEPT ![Len(q)].text = t]

\* lines 262-270: Enter or a click on the send button (both disabled while
\* isChatting or isRecording, lines 548-562) with a text that is not blank;
\* the handler returns at once while a turn is in flight
handleSendMessage ==
  /\ ~isChatting /\ ~isRecording
  /\ ~isChatting
  /\ chist.turns < MaxTurns
  /\ chatMessages' = Append(chatMessages,
                            [role |-> "user", text |-> <<"typed">>,
                             by |-> "typed", turn |-> 0])
  /\ isChatting' = TRUE
  /\ cpc' = "sending"
  /\ chist' = [chist EXCEPT !.turns = @ + 1]
  /\ UNCHANGED <<modelResponse, unmountedApp>>
  /\ UNCHANGED <<liveVars, codecVars, videoVars, keyVars, genVars>>

\* lines 271-273: sendMessageStream resolved; the empty model message of the
\* turn is appended
streamOpens ==
  /\ cpc = "sending"
  /\ cpc' = "streaming"
  /\ modelResponse' = <<>>
  /\ chatMessages' = Append(chatMessages,
                            [role |-> "model", text |-> <<>>, by |-> "chat",
                             turn |-> chist.turns])
  /\ UNCHANGED <<isChatting, chist, unmountedApp>>
  /\ UNCHANGED <<liveVars, codecVars, videoVars, keyVars, genVars>>

\* lines 275-281: a chunk arrived; the text of the last message of the list
\* is set to the chunks received so far
chunkArrives(c) ==
  /\ cpc = "streaming"
  /\ chist.chunks < MaxChunks
  /\ modelResponse' = Append(modelResponse, c)
  /\ chatMessages' = SetLastText(chatMessages, modelResponse')
  /\ chist' = [chist EXCEPT !.chunks = @ + 1]
  /\ UNCHANGED <<isChatting, cpc, unmountedApp>>
  /\ UNCHANGED <<liveVars, codecVars, videoVars, keyVars, genVars>>

\* lines 275, 295-297: the stream ended
streamEnds ==
  /\ cpc = "streaming"
  /\ cpc' = "idle"
  /\ isChatting' = FALSE
  /\ UNCHANGED <<chatMessages, modelResponse, chist, unmountedApp>>
  /\ UNCHANGED <<liveVars, codecVars, videoVars, keyVars, genVars>>

\* lines 283-297: sendMessageStream rejected or the stream failed; the error
\* text replaces an empty model message at the end of the list, else it is
\* appended as a new model message
turnFails ==
  /\ cpc \in {"sending", "streaming"}
  /\ cpc' = "idle"
  /\ isChatting' = FALSE
  /\ chatMessages' =
       IF Last(chatMessages).role = "model" /\ Last(chatMessages).text = <<>>
       THEN SetLastText(chatMessages, <<"sorry">>)
       ELSE Append(chatMessages, [role |-> "model", text |-> <<"sorry">>,
                                  by |-> "chat", turn |-> chist.turns])
  /\ UNCHANGED <<modelResponse, chist, unmountedApp>>
  /\ UNCHANGED <<liveVars, codecVars, videoVars, keyVars, genVars>>

\* lines 324-347: a message of the open socket of attempt k carries a
\* transcription and no audio: of the user's speech (role "user") or of the
\* model's (role "model").  The fragment is added to the last message of the
\* list if that has the same role, else it is appended as a new message.
handleLiveMessageText(k, role) ==
  /\ msg.pc = "idle"
  /\ ws[k] = "open"
  /\ chist.frags < MaxFrags
  /\ chatMessages' =
       IF Last(chatMessages).role = role
       THEN SetLastText(chatMessages, Last(chatMessages).text \o <<"frag">>)
       ELSE Append(chatMessages, [role |-> role, text |-> <<"frag">>,
                                  by |-> "live", turn |-> 0])
  /\ chist' = [chist EXCEPT !.frags = @ + 1]
  /\ UNCHANGED <<isChatting, cpc, modelResponse, unmountedApp>>
  /\ UNCHANGED <<liveVars, codecVars, videoVars, keyVars, genVars>>

\* the chat panel by itself
NextTurn ==
  \/ handleSendMessage
  \/ streamOpens
  \/ \E c \in Chunks : chunkArrives(c)
  \/ streamEnds
  \/ turnFails

\* the chat panel next to a live session
NextChat ==
  \/ NextTurn
  \/ handleToggleRecording /\ hist'.nStarts <= PlayStarts
  \/ \E k \in Att : MicGranted(k)
  \/ \E k \in Att : MicDenied(k)
  \/ \E k \in Att, throws \in BOOLEAN : onOpen(k, throws)
  \/ \E k \in Att : onError(k)
  \/ \E k \in Att : onClose(k)
  \/ \E k \in Att, role \in {"user", "model"} : handleLiveMessageText(k, role)

SpecChat == Init /\ [][NextChat]_vars

\* ---- unmount of App (lines 246-254) ----

\* line 239: the effect of lines 246-254 has no dependencies, so its cleanup
\* is the closure of the first render and reads that render's isRecording
isRecordingAtMount == FALSE

\* lines 249-253: the page is closed, React runs the cleanup; its test of
\* line 250 fails and stopRecording is not called
unmount ==
  /\ ~unmountedApp
  /\ ~isRecordingAtMount
  /\ unmountedApp' = TRUE
  /\ UNCHANGED <<liveVars, codecVars, videoVars, keyVars, genVars, chatVars>>

\* the session lifecycle until and after the page is closed: clicks end with
\* the unmount, the callbacks of calls in flight still run
NextUnmount ==
  \/ ~unmountedApp /\ handleToggleRecording
  \/ \E k \in Att : MicGranted(k)
  \/ \E k \in Att : MicDenied(k)
  \/ \E k \in Att, throws \in BOOLEAN : onOpen(k, throws)
  \/ \E k \in Att : onError(k)
  \/ \E k \in Att : onClose(k)
  \/ unmount

SpecUnmount == Init /\ [][NextUnmount]_vars

\* ---- steps and phases the claims speak about ----

\* the capture nodes delivered a frame
FrameCaptured == captured' = captured + 1

\* a blob as the capture path is to hand it over: the PCM MIME type and two
\* bytes of payload per sample
GoodBlob(x) == x.mimeType = "audio/pcm;rate=16000" /\ x.len = 2 * x.n

\* the frames of a queue of blobs are in capture order, none twice
InOrder(q) == \A i, j \in 1..Len(q) : i < j => q[i].frame < q[j].frame

\* the calls of sendRealtimeInput on the session of attempt k
SentTo(k) == SelectSeq(sent, LAMBDA x : x.to = k)

\* a call of sendRealtimeInput threw
SendFails == Len(sent') = Len(sent) + 1 /\ sent'[Len(sent')].err # "none"

\* handleLiveMessage took up a message whose audio cannot be decoded
DecodeFails == \E k \in Att, t \in AudioTexts, i \in BOOLEAN : handleLiveMessageBad(k, t, i)

\* stopRecording is called: by the toggle while recording, or by onError
StopCalled == (isRecording /\ handleToggleRecording) \/ \E k \in Att : onError(k)

\* line 403 will throw: the record exists but has no input context
StopThrows == audioContextRef # NullCtx /\ audioContextRef.input = 0

NothingAlive ==
  LiveStreams = {} /\ LiveContexts = {} /\ LiveNodes = {} /\ LiveSessions = {}

\* no start is waiting for the microphone and no socket is still connecting
Settled == \A k \in Att : pc[k] # "awaitMic" /\ ws[k] # "connecting"

\* the lifecycle as the UI and the session object show it (section 4.4 of the
\* specification); Stopping is the inside of stopRecording, which is one step
Phase ==
  IF ~isRecording THEN "Idle"
  ELSE IF sessionPromiseRef # 0 /\ promise[sessionPromiseRef] = "resolved"
       THEN "Active"
       ELSE "Starting"

\* a segment is handed to the output device (line 313)
Scheduled == msg.pc = "decoding" /\ msg'.pc = "idle"

\* an interruption signal is handled (lines 318-322)
Interrupted ==
  \/ msg.pc = "idle" /\ msg'.pc = "idle"
     /\ \E k \in Att, d \in 0..MaxDur : handleLiveMessage(k, d, TRUE)
  \/ msg.pc = "decoding" /\ msg.interrupted /\ handleLiveMessageDecoded

\* ---- claims ----

\* C1: across any sequence of toggles and asynchronous completions at most one
\* streaming session and at most one input/output device-context pair is alive.
C1_AtMostOneSession ==
  Cardinality(LiveSessions) <= 1 /\ Cardinality(LiveContexts) <= 1

\* C2: stop may be called in any lifecycle state, also while Starting: once a
\* stop was called after the last start and the pending steps of that start
\* have settled, no microphone stream, device context, capture node or session
\* is alive and the UI is not recording.
C2_StopWhileStarting ==
  (hist.stops >= 1 /\ Settled) => (NothingAlive /\ ~isRecording)

\* C3: of two calls of stop in direct succession, neither raises an error and
\* each leaves the session, the device contexts, the capture nodes and the
\* microphone released and the schedule at {nextStartTime = 0, no sources}.
C3_StopTwice ==
  [][(StopCalled /\ hist.justStopped) => (hist.stopOK /\ hist'.stopOK)]_vars

\* C4: after a stop, and until the next start, the playback schedule is
\* {nextStartTime = 0, no sources} and both device contexts are closed.
C4_ResetAfterStop ==
  hist.stops >= 1 => (ScheduleReset /\ LiveContexts = {})

\* C5: with no interruption and no stop in between, a segment is started at or
\* after the previous segment's start plus its duration, and exactly there when
\* that time has not yet passed on the output clock.
C5_GaplessOrder ==
  [][(Scheduled /\ hist.lastEnd >= 0) =>
       /\ hist'.at >= hist.lastEnd
       /\ (hist.lastEnd >= msg.now => hist'.at = hist.lastEnd)]_vars

\* C5 witness: a segment was scheduled right after another one
C5_Witness == hist.chained

\* C6: when an interruption has been handled no source is left in the set or
\* playing and nextStartTime is 0; the next segment starts at the clock value
\* read when it is handled, which is at or after the clock at the interruption.
C6_Interruption ==
  [][/\ Interrupted =>
          (sources' = {} /\ nextStartTime' = 0 /\ PlayingSources' = {})
     /\ (Scheduled /\ hist.intAt >= 0) =>
          (hist'.at >= hist.intAt /\ hist'.at = msg.now)]_vars

\* C6 witness: the first segment after an interruption was scheduled while
\* the clock had moved on
C6_Witness == hist.afterInt /\ hist.at >= 1

C8_ErrorWhileActive ==
  [][\A k \in Att :
       (Phase = "Active" /\ k = sessionPromiseRef /\ onError(k)) =>
          /\ errorMessage' = "conn"
          /\ ~isRecording'
          /\ AllReleased'
          /\ pc' = pc
          /\ \A j \in Att : ws'[j] = "connecting" => ws[j] = "connecting"]_vars

\* C9: the lifecycle only moves Idle -> Starting -> Active -> (Stopping) -> Idle
\* or Starting -> Idle; a transport failure while Starting ends Idle with all
\* acquired resources released; while the UI is recording, some session is
\* open or can still open.
C9_Lifecycle ==
  [][/\ <<Phase, Phase'>> \in
          {<<"Idle", "Idle">>, <<"Idle", "Starting">>,
           <<"Starting", "Starting">>, <<"Starting", "Active">>,
           <<"Starting", "Idle">>, <<"Active", "Active">>, <<"Active", "Idle">>}
     /\ \A k \in Att :
          (Phase = "Starting" /\ k = sessionPromiseRef /\ onError(k)) =>
             (Phase' = "Idle" /\ AllReleased')
     /\ isRecording' =>
          \E k \in Att : pc'[k] = "awaitMic" \/ ws'[k] \in {"connecting", "open"}]_vars

\* C10: when the microphone is denied the error is surfaced, the UI is not
\* recording, that start has created and never creates a stream, a device
\* context or a session, and it is not retried.
C10_MicDenied ==
  [][\A k \in Att :
       /\ (pc[k] = "awaitMic" /\ pc'[k] = "denied") =>
            /\ errorMessage' = "mic"
            /\ ~isRecording'
            /\ <<stream, ctx, ws, promise, nodes>>' = <<stream, ctx, ws, promise, nodes>>
       /\ pc[k] = "denied" =>
            /\ pc'[k] = "denied"
            /\ stream'[k] = "none" /\ ctx'[k] = "none" /\ ws'[k] = "none"]_vars

\* C10 witness: a start ended with the microphone denied
C10_Witness == \E k \in Att : pc[k] = "denied"

\* C13: for every byte sequence b, the empty one included, decode(encode(b))
\* succeeds and equals b.
C13_Base64RoundTrip ==
  (cin.op = "bytes" /\ cout.done) => (cout.ok /\ cout.bytes = cin.bytes)

\* C13 witness: a sequence whose length is no multiple of 3 (its base64 text
\* is padded) went through the round trip
C13_Witness ==
  cin.op = "bytes" /\ cout.done /\ Len(cin.bytes) % 3 # 0 /\ cout.bytes = cin.bytes

\* C12: for every non-empty sample sequence with values in [-1, 1], both end
\* points included, createBlob followed by decodeAudioData with one channel
\* succeeds and gives back every sample within 1/32768 of its value.
C12_PcmRoundTrip ==
  (cin.op = "pcm" /\ cout.done /\ Len(cin.samples) > 0) =>
     /\ cout.ok
     /\ Len(cout.samples[1]) = Len(cin.samples)
     /\ \A i \in 1..Len(cin.samples) :
          LET diff == cout.samples[1][i] * Sub - cin.samples[i] IN
          diff <= Sub /\ -diff <= Sub

\* C14: decodeAudioData on a buffer whose length is no multiple of
\* 2 * numChannels fails; it returns no buffer.
C14_MalformedLength ==
  (cin.op = "audio" /\ cout.done /\ Len(cin.bytes) % (2 * cin.ch) # 0) => ~cout.ok

\* C17: the start time handed to source.start is max(nextStartTime, now()) as
\* read when the message is taken up, and it is not earlier than the output
\* clock at the moment source.start is called, however far the clock advanced
\* during the decode.
C17_StartNotInPast ==
  [][/\ (msg.pc = "idle" /\ msg'.pc = "decoding") =>
          nextStartTime' = Max(nextStartTime, clock)
     /\ Scheduled => (hist'.at = nextStartTime /\ hist'.at >= clock)]_vars

\* C18: the device-context record is absent or holds both device contexts;
\* capture nodes are in the record only together with running contexts.
C18_RecordWhole ==
  /\ audioContextRef = NullCtx
       \/ (audioContextRef.input # 0 /\ audioContextRef.output # 0)
  /\ audioContextRef.scriptProcessor # 0 =>
       /\ audioContextRef.input # 0
       /\ ctx[audioContextRef.input] = "running"

\* C11: a captured frame of N samples gives exactly one blob with the PCM MIME
\* type and 2 * N bytes of payload, handed to the session the ref holds (at
\* once, or queued on its promise while that is pending); every session
\* receives its blobs in capture order and no frame twice.
C11_FrameToBlob ==
  [][/\ (FrameCaptured /\ sessionPromiseRef # 0) =>
          LET s == sessionPromiseRef IN
          IF promise[s] = "resolved"
          THEN /\ Len(sent') = Len(sent) + 1
               /\ sent'[Len(sent')].to = s
               /\ sent'[Len(sent')].frame = captured'
               /\ SubSeq(sent', 1, Len(sent)) = sent
               /\ thens' = thens
          ELSE /\ Len(thens'[s]) = Len(thens[s]) + 1
               /\ thens'[s][Len(thens'[s])].frame = captured'
               /\ sent' = sent
     /\ \A i \in 1..Len(sent') : GoodBlob(sent'[i])
     /\ \A k \in Att :
          /\ \A i \in 1..Len(thens'[k]) : GoodBlob(thens'[k][i])
          /\ InOrder(SentTo(k)' \o thens'[k])]_vars

\* C11 witness: two frames of different lengths were sent to the same session
C11_Witness ==
  /\ Len(sent) = 2
  /\ sent[1].to = sent[2].to
  /\ sent[1].n # sent[2].n

\* C19: when the audio of a message cannot be decoded, the error does not
\* leave the handler (its promise is not rejected), no source is added, and
\* the handler is ready for the next message.
C19_DecodeErrorContained ==
  [][DecodeFails =>
       (msg'.pc = "idle" /\ sources' = sources /\ srcSt' = srcSt)]_vars

\* C20: a send that fails is logged and dropped: the frame is not sent again
\* and the capture graph goes on.
C20_SendFailureDropped ==
  [][SendFails =>
       /\ sent'[Len(sent')].err = "logged"
       /\ SubSeq(sent', 1, Len(sent)) = sent
       /\ \A i \in 1..Len(sent) : sent[i].frame # sent'[Len(sent')].frame
       /\ <<nodes, ctx, stream, msg>>' = <<nodes, ctx, stream, msg>>]_vars

\* the call of generateVideo has settled
VideoSettled == vpc \in {"resolved", "rejected"}

\* what holds of a call of generateVideo at every moment
VideoSafe ==
  /\ vhist.first \in {"", "warming"}
  /\ vpc \in {"sleeping", "polling"} =>
       /\ ~operation.done
       /\ progress = progressMessages[((messageIndex + 3) % 4) + 1]
  /\ progress \in {"complete", "fetching"} => operation.done
  /\ result \in {"url", "noLink", "downloadFailed"} => operation.done
  /\ vhist.fetched => (operation.done /\ operation.link)
  /\ (operation.done /\ ~operation.link) <=> result = "noLink"

\* C15: 'warming up' is the first progress message; the call polls only
\* while the operation it read is not done, with one cycling message before
\* each wait and none when the job was done at submission; completion, the
\* URL and the call's own errors come only after the operation was read as
\* done; a done job without a link fails with 'no link' and fetch is not
\* called; once the job is done the call settles.
C15_VideoPolling ==
  /\ []VideoSafe
  /\ [][/\ (vpc # "sleeping" /\ vpc' = "sleeping") =>
             /\ vpc \in {"submitting", "polling"}
             /\ progress' = progressMessages[messageIndex + 1]
             /\ messageIndex' = (messageIndex + 1) % 4
        /\ vpc' = "polling" => vpc \in {"sleeping", "polling"}
        /\ (vpc = "submitting" /\ operation'.done) =>
             progress' \in {"complete", "fetching"}]_vars
  /\ job.done ~> VideoSettled

\* C15 witness: the call resolved with a URL after at least two polls
C15_Witness == vpc = "resolved" /\ result = "url" /\ vhist.polls >= 2

C26_FrameToOwnSession ==
  [][/\ \A i \in (Len(sent) + 1)..Len(sent') :
          /\ sent'[i].by = sent'[i].to
          /\ ~closeReq[sent'[i].to]
     /\ (FrameCaptured /\ sessionPromiseRef = 0) =>
          (sent' = sent /\ thens' = thens)]_vars

\* a generation ended with the error that names a missing entity
NotFoundFailure ==
  gpc = "awaiting" /\ gpc' = "idle" /\ errorMessage' = "key"

\* C21: after a generation failed with 'Requested entity was not found.' the
\* gate is back in its 'select key' state, and the form is not shown until a
\* call of openSelectKey has completed.
C21_ForcedReselect ==
  /\ [](ghist.reselect /\ ~khist.dialog => ~FormShown)
  /\ [][NotFoundFailure => View' = "select"]_vars

\* C22: a handler is waiting only while the status is 'generating', and then
\* no further call of generateVideo is started; the status leaves 'generating'
\* only for 'success' with a URL or 'error' with a message, and a terminal
\* status changes only by a new submission, which is open to the user again;
\* once generateVideo has settled the status does not stay 'generating'.
C22_OneGeneration ==
  /\ [](gpc # "idle" <=> generationStatus = "generating")
  /\ [](generationStatus = "success" => gpc = "idle")
  /\ [][/\ generationStatus = "generating" =>
            /\ ghist'.attempts = ghist.attempts
            /\ (vpc # "submitting" /\ vpc' = "submitting") => gpc = "reading"
        /\ (generationStatus = "generating" /\ generationStatus' # "generating") =>
            \/ generationStatus' = "success" /\ generatedVideoUrl' = "url"
            \/ generationStatus' = "error" /\ errorMessage' # ""
        /\ (generationStatus \in {"success", "error"}
              /\ generationStatus' # generationStatus) =>
            (generationStatus' = "generating" /\ ghist'.attempts = ghist.attempts + 1)]_vars
  /\ (gpc = "awaiting" /\ vpc \in {"resolved", "rejected"})
       ~> generationStatus \in {"success", "error"}
C22_Witness ==
  generationStatus = "error" /\ errorMessage = "video" /\ ghist.attempts = 2

\* the message of the list that streamOpens made for the turn in flight
TurnMessages ==
  {i \in 1..Len(chatMessages) :
     chatMessages[i].by = "chat" /\ chatMessages[i].turn = chist.turns}

\* a chunk of the chat stream was received
ChunkReceived == Len(modelResponse') = Len(modelResponse) + 1

\* the text holds a transcription fragment
HasFrag(t) == \E i \in 1..Len(t) : t[i] = "frag"

\* C23: a turn is in flight exactly while isChatting is set and a new turn is
\* started only when none is in flight; after each chunk the text of the
\* turn's model message is the chunks received so far, in order.
C23_ChatTurns ==
  /\ [](isChatting <=> cpc # "idle")
  /\ [][/\ chist'.turns # chist.turns => (~isChatting /\ isChatting')
        /\ ChunkReceived =>
             /\ modelResponse' = Append(modelResponse, Last(modelResponse'))
             /\ \E i \in TurnMessages' : chatMessages'[i].text = modelResponse']_vars

\* C25: a chunk changes only the model message of its turn, so no message
\* that transcription made or extended is overwritten; while the stream is
\* in progress no transcription fragment is in the turn's model message.
C25_ChunksStayInTurn ==
  /\ [](cpc = "streaming" =>
          \A i \in TurnMessages : ~HasFrag(chatMessages[i].text))
  /\ [][ChunkReceived =>
          /\ Len(chatMessages') = Len(chatMessages)
          /\ \A i \in 1..Len(chatMessages) :
               i \notin TurnMessages => chatMessages'[i] = chatMessages[i]]_vars

\* C24: when App is unmounted while recording, stopRecording runs: what the
\* refs hold is released and the refs are cleared.
C24_UnmountStops ==
  [][(~unmountedApp /\ unmountedApp' /\ isRecording) => StopReleases]_vars

====
